---- MODULE Spec2Model ----
(***************************************************************************)
(* Model of efinance/common/getter.py: the K-line fetcher                  *)
(* (get_quote_history_single), the threaded batch (get_quote_history_multi *)
(* with its retried task `start`), the dispatching facade                  *)
(* (get_quote_history) and the base-info cache used by get_deal_detail.    *)
(*                                                                         *)
(* Python strings are sequences of one-character strings, so that          *)
(* str.split is computed and not assumed.  The column names of the source  *)
(* are written in ASCII: "name" is '名称', "code" is '代码'.                 *)
(***************************************************************************)
EXTENDS Integers, Sequences, FiniteSets, TLC

(* ------------------------------ bounds --------------------------------- *)

\* Number of K-line fields of EASTMONEY_KLINE_FIELDS kept by the model.
NumKlineFields == 2

\* Largest length of the list of codes given to a batch.
MaxCodes == 2

\* The default of the `tries` argument of get_quote_history_multi; the
\* values explored are those from one try up to it.
DefaultTries == 3

\* Size of the multitasking pool (its semaphore's initial value).
PoolThreads == 2

(* --------------------------- Python helpers ---------------------------- *)

Last(s) == s[Len(s)]

\* Index of the first occurrence of sep in s, 0 when there is none.
RECURSIVE FindFrom(_, _, _)
FindFrom(s, sep, i) ==
    IF i > Len(s) THEN 0
    ELSE IF s[i] = sep THEN i
    ELSE FindFrom(s, sep, i + 1)

\* str.split(sep): the fields between the separators; "" gives [""].
RECURSIVE Split(_, _)
Split(s, sep) ==
    LET i == FindFrom(s, sep, 1)
    IN  IF i = 0 THEN << s >>
        ELSE << SubSeq(s, 1, i - 1) >> \o Split(SubSeq(s, i + 1, Len(s)), sep)

\* sep.join(parts)
RECURSIVE Join(_, _)
Join(parts, sep) ==
    IF Len(parts) = 0 THEN << >>
    ELSE IF Len(parts) = 1 THEN parts[1]
    ELSE parts[1] \o << sep >> \o Join(Tail(parts), sep)

\* list.insert(0, x)
ListInsert0(list, x) == << x >> \o list

RECURSIVE MaxLen(_)
MaxLen(rows) ==
    IF Len(rows) = 0 THEN 0
    ELSE LET m == MaxLen(Tail(rows))
         IN  IF Len(rows[1]) > m THEN Len(rows[1]) ELSE m

\* All sequences over S of length at most n.
SeqsUpTo(S, n) == UNION { [1..k -> S] : k \in 0..n }

(* ------------------------------- cells --------------------------------- *)

\* A cell of a DataFrame: text, a number, or the missing marker.
StrCell(s) == [type |-> "str", text |-> s, num |-> 0]
NumCell(n) == [type |-> "num", text |-> << >>, num |-> n]
NoneCell == [type |-> "none", text |-> << >>, num |-> 0]


(* ------------------------------ tables --------------------------------- *)

\* pd.DataFrame as its column sequence and its rows (each a sequence of cells).
Table(columns, rows) == [columns |-> columns, rows |-> rows]

\* Stands for "no DataFrame" in variables that hold one only some of the time.
NoTable == Table(<< >>, << >>)

\* Outcome of a call: a returned DataFrame or a raised exception.
Return(t) == [ok |-> TRUE, table |-> t, exc |-> "none"]
Raise(e) == [ok |-> FALSE, table |-> NoTable, exc |-> e]

\* pd.DataFrame(columns=columns): zero rows, the given columns.
EmptyDataFrame(columns) == Table(columns, << >>)

\* pd.DataFrame(rows, columns=columns) for a non-empty list of lists: short
\* rows are padded with None up to the longest row; a longest row whose
\* length differs from the number of columns raises ValueError.
DataFrame(rows, columns) ==
    IF MaxLen(rows) # Len(columns) THEN Raise("ValueError")
    ELSE Return(Table(columns,
            [i \in 1..Len(rows) |->
                [j \in 1..Len(columns) |->
                    IF j <= Len(rows[i]) THEN StrCell(rows[i][j])
                    ELSE NoneCell]]))

\* df.insert(0, column, value): a new first column holding value in every row.
DfInsert0(df, column, value) ==
    Table(<< column >> \o df.columns,
          [i \in 1..Len(df.rows) |-> << StrCell(value) >> \o df.rows[i]])

(* ---------------------------- to_numeric ------------------------------- *)

Digits == {"0", "1", "2", "3", "4", "5", "6", "7", "8", "9"}

DigitVal(c) ==
    CASE c = "0" -> 0 [] c = "1" -> 1 [] c = "2" -> 2 [] c = "3" -> 3
      [] c = "4" -> 4 [] c = "5" -> 5 [] c = "6" -> 6 [] c = "7" -> 7
      [] c = "8" -> 8 [] c = "9" -> 9

RECURSIVE ParseInt(_)
ParseInt(s) ==
    IF Len(s) = 0 THEN 0
    ELSE 10 * ParseInt(SubSeq(s, 1, Len(s) - 1)) + DigitVal(Last(s))

\* A cell converts when it is already a number or missing, or is a
\* non-empty text of digits.
Parses(cell) ==
    \/ cell.type # "str"
    \/ /\ Len(cell.text) > 0
       /\ \A i \in 1..Len(cell.text) : cell.text[i] \in Digits

Convert(cell) ==
    IF cell.type = "str" THEN NumCell(ParseInt(cell.text)) ELSE cell

\* The to_numeric decorator on a DataFrame: a column is converted when every
\* value of it converts, and is left as it is otherwise; the columns and the
\* number of rows are kept.
ToNumericTable(df) ==
    LET whole(j) == \A i \in 1..Len(df.rows) : Parses(df.rows[i][j])
    IN  Table(df.columns,
              [i \in 1..Len(df.rows) |->
                  [j \in 1..Len(df.columns) |->
                      IF whole(j) THEN Convert(df.rows[i][j])
                      ELSE df.rows[i][j]]])

\* The decorator around a call: a raised exception passes through.
to_numeric(outcome) ==
    IF outcome.ok THEN Return(ToNumericTable(outcome.table)) ELSE outcome

(* --------------------------- configuration ----------------------------- *)

\* EASTMONEY_KLINE_FIELDS.values(): the declared K-line columns, in order.
AllKlineColumns ==
    << "date", "open", "close", "high", "low", "volume", "amount",
       "amplitude", "change_pct", "change", "turnover" >>

EASTMONEY_KLINE_FIELDS == SubSeq(AllKlineColumns, 1, NumKlineFields)

\* The declared schema of a K-line table: '名称', '代码', then the K-line columns.
KlineSchema == << "name", "code" >> \o EASTMONEY_KLINE_FIELDS

(* ------------------------------ upstream ------------------------------- *)

\* One element of `klines`: n comma-joined fields, a date then numbers.
KlineOf(n) == Join([i \in 1..n |-> IF i = 1 THEN << "d" >> ELSE << "1" >>], ",")

\* Lines with the declared number of fields, one too few and one too many.
KlineSamples ==
    { KlineOf(NumKlineFields), KlineOf(NumKlineFields - 1),
      KlineOf(NumKlineFields + 1) }

\* The `klines` lists explored: none, each single line, and a full line
\* followed by a short one.
KlineLists ==
    { << >> } \cup { << k >> : k \in KlineSamples } \cup
    { << KlineOf(NumKlineFields), KlineOf(NumKlineFields - 1) >> }

\* session.get(...).json(): the request raises, or JSON comes back whose
\* 'data' is null or an object with or without 'name' and 'klines'.
ErrorResponse ==
    [kind |-> "error", data |-> "none", hasName |-> FALSE, klines |-> << >>]

NullDataResponse ==
    [kind |-> "json", data |-> "null", hasName |-> FALSE, klines |-> << >>]

Responses ==
    {ErrorResponse, NullDataResponse} \cup
    [kind : {"json"}, data : {"object"}, hasName : BOOLEAN,
     klines : KlineLists]

\* data.name of the payload.
UpstreamName == << "N" >>

\* jsonpath(json_response, '$..klines[:]'): the elements of klines, or False
\* (here the empty sequence) when there is none.
JsonPathKlines(response) == response.klines

(* ----------------------------- identifiers ----------------------------- *)

\* The codes a caller passes: a bare code and a market-qualified quote id.
Identifiers == { << "a" >>, << "1", ".", "b" >> }

\* get_quote_id(code): the market-qualified quote id of a bare code; a code
\* that is no bare code is not resolved.
get_quote_id(code) ==
    IF FindFrom(code, ".", 1) = 0
    THEN [ok |-> TRUE, quote_id |-> << "1", "." >> \o code, exc |-> "none"]
    ELSE [ok |-> FALSE, quote_id |-> << >>, exc |-> "UnresolvedIdentifierError"]

(* ---------------------- get_quote_history_single ----------------------- *)

\* The two inserts in the other order: '代码' would come first.
EmptyColumnsSwapped(columns) == ListInsert0(ListInsert0(columns, "name"), "code")

\* The columns of the table returned when there is no K-line:
\* columns.insert(0, '代码'), then columns.insert(0, '名称').
EmptyColumns(columns) == ListInsert0(ListInsert0(columns, "code"), "name")

\* The undecorated body, lines 69-104.
QuoteHistorySingleBody(code, quote_id_mode, response) ==
    LET columns == EASTMONEY_KLINE_FIELDS
        resolved == IF quote_id_mode
                    THEN [ok |-> TRUE, quote_id |-> code, exc |-> "none"]
                    ELSE get_quote_id(code)
    IN  IF ~resolved.ok THEN Raise(resolved.exc)
        ELSE IF response.kind = "error" THEN Raise("ConnectionError")
        ELSE
          LET klines == JsonPathKlines(response)
          IN  IF Len(klines) = 0
              THEN Return(EmptyDataFrame(EmptyColumns(columns)))
              ELSE
                LET rows == [i \in 1..Len(klines) |-> Split(klines[i], ",")]
                IN  IF ~response.hasName THEN Raise("KeyError")
                    ELSE
                      LET name == UpstreamName
                          code2 == Last(Split(resolved.quote_id, "."))
                          df == DataFrame(rows, columns)
                      IN  IF ~df.ok THEN df
                          ELSE Return(DfInsert0(DfInsert0(df.table, "code", code2),
                                                "name", name))

get_quote_history_single(code, quote_id_mode, response) ==
    to_numeric(QuoteHistorySingleBody(code, quote_id_mode, response))

\* What a call can return or raise, over every response of the upstream.
FetchOutcomes ==
    [code \in Identifiers, mode \in BOOLEAN |->
        { get_quote_history_single(code, mode, response) : response \in Responses }]


(* ------------------------------- state --------------------------------- *)

VARIABLES
    codes,          \* the `codes` argument of get_quote_history: [type, value]
    quote_id_mode,  \* kwargs.get('quote_id_mode')
    tries,          \* the `tries` argument of get_quote_history_multi
    pc,             \* where the calling thread is
    next,           \* index of the next code of `for code in codes`
    tasks,          \* the threads started by multitasking.task, one per index
    dfs,            \* the dict filled by the tasks
    pbar,           \* the tqdm progress bar
    result,         \* what the call returned or raised
    attempts,       \* per task, the calls of get_quote_history_single so far
    requests,       \* the K-line requests sent to the upstream service so far
    upstream,       \* per code and mode, what a task's call can return or
                    \* raise; set when the process starts and never changed
    reply,          \* what the upstream answered to a call with a single code
    BASE_INFO_CACHE,\* shared.BASE_INFO_CACHE: quote id -> base-info Series
    calls,          \* the calls of get_deal_detail made so far
    baseRequests,   \* the base-info requests sent so far
    detailRequests, \* the trade-detail requests sent so far
    deal            \* the last call of get_deal_detail and what came of it

quoteVars == << codes, quote_id_mode, tries, pc, next, tasks, dfs, pbar, result,
                attempts, requests, upstream, reply >>

dealVars == << BASE_INFO_CACHE, calls, baseRequests, detailRequests, deal >>

vars == << codes, quote_id_mode, tries, pc, next, tasks, dfs, pbar, result,
           attempts, requests, upstream, reply, BASE_INFO_CACHE, calls,
           baseRequests, detailRequests, deal >>

(* ------------------------------- inputs -------------------------------- *)

StrInput(code) == [type |-> "str", value |-> code]
ListInput(list) == [type |-> "list", value |-> list]
OtherInput(type) == [type |-> type, value |-> << >>]

\* A string, a list of strings, and two values that are neither.
Inputs ==
    { StrInput(c) : c \in Identifiers } \cup
    { ListInput(l) : l \in SeqsUpTo(Identifiers, MaxCodes) } \cup
    { OtherInput("int"), OtherInput("NoneType") }

\* isinstance(codes, str)
IsStr(x) == x.type = "str"

\* hasattr(codes, '__iter__'): a str has it too.
HasIter(x) == x.type \in {"str", "list"}

(* ------------------------------ results -------------------------------- *)

NoResult == [kind |-> "none", table |-> NoTable, dict |-> << >>, exc |-> "none"]
TableResult(t) == [kind |-> "table", table |-> t, dict |-> << >>, exc |-> "none"]
DictResult(d) == [kind |-> "dict", table |-> NoTable, dict |-> d, exc |-> "none"]
ErrorResult(e) == [kind |-> "error", table |-> NoTable, dict |-> << >>, exc |-> e]

\* Whether a call of get_quote_history_single sends its request: it does
\* unless resolving the code raised first.
SendsRequest(code, mode) == mode \/ get_quote_id(code).ok

(* -------------------------------- Init --------------------------------- *)

NoDeal ==
    [quote_id |-> << >>, hit |-> FALSE, baseRequested |-> FALSE,
     detailRequested |-> FALSE, fresh |-> << >>, used |-> << >>,
     kind |-> "none", table |-> NoTable, exc |-> "none"]

\* The cache is empty when the process starts.
DealInit ==
    /\ BASE_INFO_CACHE = << >>
    /\ calls = 0
    /\ baseRequests = 0
    /\ detailRequests = 0
    /\ deal = NoDeal

\* A task: where its thread is, the tries retry has left, the local _df,
\* and the key it has stored its table under, if it has.
NoTask == [pc |-> "none", triesLeft |-> 0, df |-> NoTable, wrote |-> << >>]

\* No answer of the upstream is on record.
NoResponse ==
    [kind |-> "none", data |-> "none", hasName |-> FALSE, klines |-> << >>]

NewBar(total) == [n |-> 0, total |-> total, desc |-> << >>, closed |-> FALSE]

Init ==
    /\ codes \in Inputs
    /\ quote_id_mode \in BOOLEAN
    /\ tries \in 1..DefaultTries
    /\ pc = "call"
    /\ next = 1
    /\ tasks = << >>
    /\ dfs = << >>
    /\ pbar = NewBar(0)
    /\ result = NoResult
    /\ attempts = << >>
    /\ requests = 0
    /\ upstream = FetchOutcomes
    /\ reply = NoResponse
    /\ DealInit


(* --------------------------- get_quote_history ------------------------- *)

\* The two tests in the other order: a str, which has __iter__, would be
\* taken for a collection.
RouteIterFirst(x) ==
    IF HasIter(x) THEN "multi"
    ELSE IF IsStr(x) THEN "single"
    ELSE "TypeError"

\* The branch get_quote_history takes: the str test comes first, then the
\* __iter__ test, and anything else raises TypeError.
Route(x) ==
    IF IsStr(x) THEN "single"
    ELSE IF HasIter(x) THEN "multi"
    ELSE "TypeError"

\* list(codes): the elements of a list, the characters of a str.
CodesList(x) ==
    IF IsStr(x) THEN [k \in 1..Len(x.value) |-> << x.value[k] >>] ELSE x.value

\* An exception of the callee turned into a zero-row table.
PropagateAsEmpty(out) ==
    IF out.ok THEN TableResult(out.table)
    ELSE TableResult(EmptyDataFrame(EmptyColumns(EASTMONEY_KLINE_FIELDS)))

\* `return get_quote_history_single(...)`: what the callee returns is
\* returned and what it raises is raised, as there is no try around it.
Propagate(out) ==
    IF out.ok THEN TableResult(out.table) ELSE ErrorResult(out.exc)

\* codes is a str: one call of get_quote_history_single, whose DataFrame is
\* returned and whose exception is the caller's.
GetQuoteHistoryStr ==
    /\ pc = "call"
    /\ Route(codes) = "single"
    /\ \E answer \in Responses :
         LET out == get_quote_history_single(codes.value, quote_id_mode, answer)
         IN  /\ result' = Propagate(out)
             /\ pc' = IF Propagate(out).kind = "error" THEN "raised"
                      ELSE "returned"
             /\ reply' = IF SendsRequest(codes.value, quote_id_mode)
                         THEN answer ELSE NoResponse
    /\ requests' = requests +
                   (IF SendsRequest(codes.value, quote_id_mode) THEN 1 ELSE 0)
    /\ UNCHANGED << codes, upstream, quote_id_mode, tries, next, tasks, dfs, pbar,
                    attempts >>
    /\ UNCHANGED dealVars

\* codes is another iterable: get_quote_history_multi starts with an empty
\* dict and a progress bar whose total is the number of codes.
GetQuoteHistoryMulti ==
    /\ pc = "call"
    /\ Route(codes) = "multi"
    /\ LET list == CodesList(codes)
       IN  /\ dfs' = << >>
           /\ pbar' = NewBar(Len(list))
           /\ tasks' = [u \in 1..Len(list) |-> NoTask]
           /\ attempts' = [u \in 1..Len(list) |-> 0]
    /\ next' = 1
    /\ pc' = "multi"
    /\ UNCHANGED << codes, upstream, reply, quote_id_mode, tries, result, requests >>
    /\ UNCHANGED dealVars

\* codes is neither: TypeError, before anything else is done.
GetQuoteHistoryTypeError ==
    /\ pc = "call"
    /\ Route(codes) = "TypeError"
    /\ result' = ErrorResult("TypeError")
    /\ pc' = "raised"
    /\ UNCHANGED << codes, upstream, reply, quote_id_mode, tries, next, tasks, dfs, pbar,
                    attempts, requests >>
    /\ UNCHANGED dealVars

(* ------------------------ get_quote_history_multi ---------------------- *)

\* A thread counted as ended only when `start` returned.
TerminatedOnlyDone(t) == t.pc = "done"

\* A task's thread has ended: `start` returned, or an exception left it.
Terminated(t) == t.pc \in {"done", "dead"}

\* The tasks holding a slot of the pool: inside `with pool:`.
Running(ts) ==
    { u \in DOMAIN ts : ts[u].pc \in {"fetch", "sleep", "write", "update", "desc"} }

\* A pool without threads: every task would run in the calling thread.
ThreadedNever == FALSE

\* multitasking.task starts a thread per call when the pool has threads, and
\* calls the function in the calling thread when it has none.
Threaded == PoolThreads > 0

\* `for code in codes: start(code)`: the next task is started; with threads
\* the loop goes on at once, without them it goes on when the call is over.
StartTask ==
    /\ pc = "multi"
    /\ next <= Len(tasks)
    /\ Threaded \/ \A u \in 1..(next - 1) : Terminated(tasks[u])
    /\ tasks' = [tasks EXCEPT ![next].pc = "queued"]
    /\ next' = next + 1
    /\ UNCHANGED << codes, upstream, reply, quote_id_mode, tries, pc, dfs, pbar, result,
                    attempts, requests >>
    /\ UNCHANGED dealVars

\* `with pool:` in the task's thread: a slot of the pool's semaphore is
\* taken, and retry begins with all its tries.
Acquire(u) ==
    /\ pc = "multi"
    /\ tasks[u].pc = "queued"
    /\ Cardinality(Running(tasks)) < PoolThreads \/ ~Threaded
    /\ tasks' = [tasks EXCEPT ![u].pc = "fetch", ![u].triesLeft = tries]
    /\ UNCHANGED << codes, upstream, reply, quote_id_mode, tries, pc, next, dfs, pbar, result,
                    attempts, requests >>
    /\ UNCHANGED dealVars

\* A retry that forgets to count the try it has used.
AfterFailureNoCount(left) == [pc |-> "sleep", triesLeft |-> left]

\* retry's step after an exception: one try fewer; with none left the
\* exception is raised again, and otherwise the thread sleeps for `delay`.
AfterFailure(left) ==
    IF left - 1 = 0 THEN [pc |-> "dead", triesLeft |-> 0]
    ELSE [pc |-> "sleep", triesLeft |-> left - 1]

\* One call of get_quote_history_single in `start`, under retry.  An
\* exception that leaves `start` ends its thread and nothing else; without
\* threads it is raised in the caller of get_quote_history_multi.
Attempt(u) ==
    /\ pc = "multi"
    /\ tasks[u].pc = "fetch"
    /\ attempts' = [attempts EXCEPT ![u] = @ + 1]
    /\ requests' = requests +
         (IF SendsRequest(CodesList(codes)[u], quote_id_mode) THEN 1 ELSE 0)
    /\ \E out \in upstream[CodesList(codes)[u], quote_id_mode] :
         LET after == AfterFailure(tasks[u].triesLeft)
         IN  IF out.ok
             THEN /\ tasks' = [tasks EXCEPT ![u].pc = "write",
                                            ![u].df = out.table]
                  /\ UNCHANGED << pc, result >>
             ELSE /\ tasks' = [tasks EXCEPT ![u].pc = after.pc,
                                            ![u].triesLeft = after.triesLeft]
                  /\ IF after.pc = "dead" /\ ~Threaded
                     THEN pc' = "raised" /\ result' = ErrorResult(out.exc)
                     ELSE UNCHANGED << pc, result >>
    /\ UNCHANGED << codes, upstream, reply, quote_id_mode, tries, next, dfs, pbar >>
    /\ UNCHANGED dealVars

\* time.sleep(delay) between two tries is over.
Sleep(u) ==
    /\ pc = "multi"
    /\ tasks[u].pc = "sleep"
    /\ tasks' = [tasks EXCEPT ![u].pc = "fetch"]
    /\ UNCHANGED << codes, upstream, reply, quote_id_mode, tries, pc, next, dfs, pbar, result,
                    attempts, requests >>
    /\ UNCHANGED dealVars

\* The loop variable read late instead of the argument: the last code.
LastCode(list, u) == list[Len(list)]

\* The key `start` writes: its own argument.
OwnCode(list, u) == list[u]

\* An assignment that rebuilds the dict with the one key.
DictSetAlone(d, key, value) == [k \in {key} |-> value]

\* d[key] = value
DictSet(d, key, value) ==
    [k \in DOMAIN d \cup {key} |-> IF k = key THEN value ELSE d[k]]

\* dfs[code] = _df; the local _df is not read again.
Write(u) ==
    /\ pc = "multi"
    /\ tasks[u].pc = "write"
    /\ dfs' = DictSet(dfs, OwnCode(CodesList(codes), u), tasks[u].df)
    /\ tasks' = [tasks EXCEPT ![u].pc = "update", ![u].df = NoTable,
                              ![u].wrote = << OwnCode(CodesList(codes), u) >>]
    /\ UNCHANGED << codes, upstream, reply, quote_id_mode, tries, pc, next, pbar, result,
                    attempts, requests >>
    /\ UNCHANGED dealVars

\* An update that counts twice.
PbarUpdateTwice(bar, n) == [bar EXCEPT !.n = @ + n + n]

\* tqdm.update(n): the count goes up by n.
PbarUpdate(bar, n) == [bar EXCEPT !.n = @ + n]

\* pbar.update(1)
Update(u) ==
    /\ pc = "multi"
    /\ tasks[u].pc = "update"
    /\ pbar' = PbarUpdate(pbar, 1)
    /\ tasks' = [tasks EXCEPT ![u].pc = "desc"]
    /\ UNCHANGED << codes, upstream, reply, quote_id_mode, tries, pc, next, dfs, result,
                    attempts, requests >>
    /\ UNCHANGED dealVars

\* pbar.set_description_str(f'Processing => {code}'); `start` returns, the
\* pool's slot is given back and the thread ends.
Describe(u) ==
    /\ pc = "multi"
    /\ tasks[u].pc = "desc"
    /\ pbar' = [pbar EXCEPT !.desc = CodesList(codes)[u]]
    /\ tasks' = [tasks EXCEPT ![u].pc = "done"]
    /\ UNCHANGED << codes, upstream, reply, quote_id_mode, tries, pc, next, dfs, result,
                    attempts, requests >>
    /\ UNCHANGED dealVars

\* A wait that joins nothing.
JoinedNone(ts) == TRUE

\* What multitasking.wait_for_tasks() waits for: every started thread to end.
Joined(ts) == \A u \in DOMAIN ts : Terminated(ts[u])

\* multitasking.wait_for_tasks(); pbar.close(); return dfs
WaitForTasks ==
    /\ pc = "multi"
    /\ next > Len(tasks)
    /\ Joined(tasks)
    /\ pbar' = [pbar EXCEPT !.closed = TRUE]
    /\ result' = DictResult(dfs)
    /\ pc' = "returned"
    /\ UNCHANGED << codes, upstream, reply, quote_id_mode, tries, next, tasks, dfs, attempts,
                    requests >>
    /\ UNCHANGED dealVars

Next ==
    \/ GetQuoteHistoryStr
    \/ GetQuoteHistoryMulti
    \/ GetQuoteHistoryTypeError
    \/ StartTask
    \/ \E u \in DOMAIN tasks : Acquire(u)
    \/ \E u \in DOMAIN tasks : Attempt(u)
    \/ \E u \in DOMAIN tasks : Sleep(u)
    \/ \E u \in DOMAIN tasks : Write(u)
    \/ \E u \in DOMAIN tasks : Update(u)
    \/ \E u \in DOMAIN tasks : Describe(u)
    \/ WaitForTasks

Spec == Init /\ [][Next]_vars

\* The same program under a scheduler that lets some enabled step happen:
\* every started thread gets to run, every request and every sleep ends.
SpecFair == Init /\ [][Next]_vars /\ WF_vars(Next)


(* ----------------------------- get_base_info -------------------------- *)

\* The quote ids get_deal_detail is called with.
QuoteIds == { << "1", ".", "a" >>, << "0", ".", "b" >> }

\* Largest number of calls of get_deal_detail in a run.
MaxCalls == 3

\* The names the upstream may report for a security, at different times.
BaseNames == { << "N" >>, << "M" >> }

\* The answer to the base-info request: the request raises, or JSON comes
\* back whose 'data' is null or carries the code and a name.
BaseResponses ==
    [kind : {"error"}, hasItems : {FALSE}, name : {<< >>}] \cup
    [kind : {"json"}, hasItems : {FALSE}, name : {<< >>}] \cup
    [kind : {"json"}, hasItems : {TRUE}, name : BaseNames]

\* A base-info Series, by its entries '代码' and '名称'.
Series(code, name) == [code |-> code, name |-> name]

\* pd.Series(index=EASTMONEY_BASE_INFO_FIELDS.values(), dtype='object'):
\* every entry is NaN.
NanSeries == Series(NoneCell, NoneCell)

\* The to_numeric decorator on a Series: each value that converts is
\* converted.
ToNumericSeries(series) ==
    Series(IF Parses(series.code) THEN Convert(series.code) ELSE series.code,
           IF Parses(series.name) THEN Convert(series.name) ELSE series.name)

SeriesReturn(series) == [ok |-> TRUE, series |-> series, exc |-> "none"]
SeriesRaise(e) == [ok |-> FALSE, series |-> NanSeries, exc |-> e]

\* get_base_info(quote_id), given the answer to its request.
get_base_info(quote_id, response) ==
    IF response.kind = "error" THEN SeriesRaise("ConnectionError")
    ELSE IF ~response.hasItems THEN SeriesReturn(ToNumericSeries(NanSeries))
    ELSE SeriesReturn(ToNumericSeries(
             Series(StrCell(Last(Split(quote_id, "."))), StrCell(response.name))))

(* ---------------------------- get_deal_detail ------------------------- *)

\* '名称', '代码', '时间', '昨收', '成交价', '成交量', '单数'
DealColumns == << "name", "code", "time", "pre_close", "price", "volume", "count" >>

\* The columns of detail_df before '昨收' is inserted.
DetailColumns == << "time", "price", "volume", "count" >>

\* One element of js['data']['details'] with n comma-joined fields.
DetailOf(n) == Join([i \in 1..n |-> IF i = 1 THEN << "t" >> ELSE << "1" >>], ",")

\* The answer to the trade-detail request: the request raises, 'data' is
\* null, or 'details' holds no line, a line of five fields or one of two.
DetailResponses ==
    [kind : {"error", "null"}, details : {<< >>}] \cup
    [kind : {"json"},
     details : { << >>, << DetailOf(Len(DetailColumns) + 1) >>,
                 << DetailOf(Len(DetailColumns) - 2) >> }]

\* js['data']['prePrice']
PrePrice == NumCell(1)

\* seq[:n]
Take(seq, n) == SubSeq(seq, 1, IF Len(seq) < n THEN Len(seq) ELSE n)

\* str(value).lower() == 'nan'
LowerChar(c) == CASE c = "N" -> "n" [] c = "A" -> "a" [] OTHER -> c

StrOf(cell) ==
    IF cell.type = "none" THEN << "n", "a", "n" >>
    ELSE IF cell.type = "str" THEN cell.text
    ELSE << "0" >>

\* A test that takes no value for NaN.
IsNanNever(cell) == FALSE

\* str(base_info['代码']).lower() == 'nan'
IsNan(cell) ==
    [i \in 1..Len(StrOf(cell)) |-> LowerChar(StrOf(cell)[i])] = << "n", "a", "n" >>

\* A get that returns the default whether the key is there or not.
DictGetDefault(d, key, default) == default

\* dict.get(key, default)
DictGet(d, key, default) == IF key \in DOMAIN d THEN d[key] ELSE default

\* Lines 358-377: the table built from the trade details, or the exception.
DealTable(base_info, response) ==
    IF response.kind = "error" THEN Raise("ConnectionError")
    ELSE IF response.kind = "null" THEN Raise("TypeError")
    ELSE
      LET lines == response.details
          rows == [i \in 1..Len(lines) |-> Take(Split(lines[i], ","), Len(DetailColumns))]
          detail_df == IF Len(rows) = 0
                       THEN Return(EmptyDataFrame(DetailColumns))
                       ELSE DataFrame(rows, DetailColumns)
      IN  IF ~detail_df.ok THEN detail_df
          ELSE Return(Table(DealColumns,
                 [i \in 1..Len(rows) |->
                    << base_info.name, base_info.code,
                       detail_df.table.rows[i][1], PrePrice,
                       detail_df.table.rows[i][2], detail_df.table.rows[i][3],
                       detail_df.table.rows[i][4] >>]))

\* Whether get_base_info is called: the default of BASE_INFO_CACHE.get is an
\* argument, evaluated before the call of get whether the key is there or not.
LookupIssued(cache, quote_id) == TRUE

NewDeal(quote_id, hit, base, detail, fresh, used, outcome) ==
    [quote_id |-> quote_id, hit |-> hit, baseRequested |-> base,
     detailRequested |-> detail, fresh |-> fresh, used |-> used,
     kind |-> IF outcome.ok THEN "table" ELSE "error",
     table |-> outcome.table, exc |-> outcome.exc]

\* One call of get_deal_detail(quote_id).
GetDealDetail(quote_id) ==
    /\ calls < MaxCalls
    /\ calls' = calls + 1
    /\ \E baseResponse \in BaseResponses, detailResponse \in DetailResponses :
         LET hit == quote_id \in DOMAIN BASE_INFO_CACHE
             issued == LookupIssued(BASE_INFO_CACHE, quote_id)
             fresh == IF issued THEN get_base_info(quote_id, baseResponse)
                      ELSE SeriesReturn(NanSeries)
             base_info == DictGet(BASE_INFO_CACHE, quote_id, fresh.series)
         IN  /\ baseRequests' = baseRequests + (IF issued THEN 1 ELSE 0)
             /\ IF ~fresh.ok
                THEN /\ deal' = NewDeal(quote_id, hit, issued, FALSE, << >>, << >>,
                                        Raise(fresh.exc))
                     /\ UNCHANGED << BASE_INFO_CACHE, detailRequests >>
                ELSE /\ BASE_INFO_CACHE' = DictSet(BASE_INFO_CACHE, quote_id, base_info)
                     /\ IF IsNan(base_info.code)
                        THEN /\ deal' = NewDeal(quote_id, hit, issued, FALSE,
                                                << fresh.series >>,
                                                << base_info >>,
                                                Return(EmptyDataFrame(DealColumns)))
                             /\ UNCHANGED detailRequests
                        ELSE /\ deal' = NewDeal(quote_id, hit, issued, TRUE,
                                                << fresh.series >>,
                                                << base_info >>,
                                                to_numeric(DealTable(base_info,
                                                                     detailResponse)))
                             /\ detailRequests' = detailRequests + 1
    /\ UNCHANGED quoteVars

\* A process that calls get_deal_detail only.
InitDeal ==
    /\ codes = ListInput(<< >>)
    /\ quote_id_mode = FALSE
    /\ tries = DefaultTries
    /\ pc = "idle"
    /\ next = 1
    /\ tasks = << >>
    /\ dfs = << >>
    /\ pbar = NewBar(0)
    /\ result = NoResult
    /\ attempts = << >>
    /\ requests = 0
    /\ upstream = FetchOutcomes
    /\ reply = NoResponse
    /\ DealInit

NextDeal == \E quote_id \in QuoteIds : GetDealDetail(quote_id)

SpecDeal == InitDeal /\ [][NextDeal]_vars

(* ======================== properties of the batch ====================== *)

\* The list a batch works on, and the code of its task u.
BatchCodes == CodesList(codes)
CodeOf(u) == BatchCodes[u]
InputSet == { BatchCodes[k] : k \in 1..Len(BatchCodes) }
Distinct(list) == \A j, k \in 1..Len(list) : j # k => list[j] # list[k]

\* get_quote_history_multi has returned its dict.
BatchReturned == codes.type = "list" /\ pc = "returned" /\ result.kind = "dict"

\* The zero-row table with the declared schema.
EmptyKlineTable == EmptyDataFrame(KlineSchema)

\* C1: when the batch returns, the keys of the returned dict are exactly the
\* input identifiers, whatever the outcomes of the fetches were.
C1_KeySetTotality ==
    BatchReturned => DOMAIN result.dict = InputSet

\* C3: when the batch returns, the code of a task that failed on all its
\* tries is a key of the returned dict and maps to the zero-row table with
\* the declared schema.
C3_ExhaustedMapsToEmpty ==
    BatchReturned =>
        \A u \in DOMAIN tasks :
            tasks[u].pc = "dead" =>
                /\ CodeOf(u) \in DOMAIN result.dict
                /\ result.dict[CodeOf(u)] = EmptyKlineTable

\* C4: when the batch returns, the progress counter equals the number of
\* identifiers: once per identifier at its terminal outcome, be it success
\* or exhausted retries.
C4_ProgressCountsEveryUnit ==
    BatchReturned => pbar.n = Len(BatchCodes)

\* C5: the batch returns only after every task was started and has ended
\* (its entry written, or its tries exhausted): none is queued, fetching,
\* sleeping before a retry or about to write.
C5_JoinAll ==
    BatchReturned =>
        /\ next > Len(BatchCodes)
        /\ \A u \in DOMAIN tasks :
              /\ tasks[u].pc \in {"done", "dead"}
              /\ tasks[u].pc = "done" => CodeOf(u) \in DOMAIN result.dict
        /\ result.dict = dfs

\* A batch of two or more codes has returned with a task that succeeded and
\* a task that exhausted its tries.
C5_Witness ==
    /\ BatchReturned
    /\ Len(BatchCodes) >= 2
    /\ \E u, v \in DOMAIN tasks : tasks[u].pc = "done" /\ tasks[v].pc = "dead"

\* C6: a task never makes more than `tries` attempts, and one that failed on
\* every attempt has made exactly `tries` of them and has ended with the
\* zero-row table stored under its code.
C6_RetryBound ==
    \A u \in DOMAIN tasks :
        /\ attempts[u] <= tries
        /\ tasks[u].pc = "dead" =>
              /\ attempts[u] = tries
              /\ CodeOf(u) \in DOMAIN dfs
              /\ dfs[CodeOf(u)] = EmptyKlineTable

\* C7: a batch call never ends with an exception: whatever tasks fail, the
\* caller is never in the raised state, and a call that has ended has
\* returned a dict.
C7_BatchNeverRaises ==
    codes.type = "list" =>
        /\ pc \in {"call", "multi", "returned"}
        /\ result.kind \in {"none", "dict"}
        /\ pc = "returned" => result.kind = "dict"

\* A batch in which every task exhausted its tries has returned.
C7_Witness ==
    /\ BatchReturned
    /\ Len(BatchCodes) >= 2
    /\ \A u \in DOMAIN tasks : tasks[u].pc = "dead"

\* A task makes a failing step: a failed attempt or the sleep before a retry.
FailingStep(u) ==
    /\ u \in DOMAIN tasks
    /\ u \in DOMAIN tasks'
    /\ \/ tasks[u].pc = "fetch" /\ tasks'[u].pc \in {"sleep", "dead"}
       \/ tasks[u].pc = "sleep" /\ tasks'[u].pc = "fetch"

C9_Dispatch ==
    /\ codes.type = "str" =>
          /\ pc \in {"call", "returned", "raised"}
          /\ tasks = << >>
          /\ pc = "returned" => result.kind = "table"
          /\ pc = "raised" => result.kind = "error" /\ result.exc # "TypeError"
    /\ codes.type = "list" =>
          /\ pc = "returned" => result.kind = "dict"
          /\ result.kind \in {"none", "dict"}
    /\ codes.type \notin {"str", "list"} =>
          /\ pc \in {"call", "raised"}
          /\ pc = "raised" => result = ErrorResult("TypeError")
          /\ requests = 0
          /\ tasks = << >>
          /\ dfs = << >>

\* An input that is neither a str nor iterable has raised TypeError.
C9_Witness ==
    /\ codes.type = "int"
    /\ pc = "raised"
    /\ result.exc = "TypeError"

\* A table has the declared schema: its columns are name, code and the
\* K-line columns in order, and every row has one cell per column.
HasKlineSchema(t) ==
    /\ t.columns = KlineSchema
    /\ \A r \in 1..Len(t.rows) : Len(t.rows[r]) = Len(KlineSchema)

\* C10: every table get_quote_history_single returns, with rows or without,
\* has the declared schema: the one returned to a caller with a single
\* code, the one a task holds, and the ones stored in the dict.
C10_SchemaTotality ==
    /\ result.kind = "table" => HasKlineSchema(result.table)
    /\ \A u \in DOMAIN tasks :
          tasks[u].pc = "write" => HasKlineSchema(tasks[u].df)
    /\ \A k \in DOMAIN dfs : HasKlineSchema(dfs[k])

\* The single fetcher has returned a zero-row table to a caller with one
\* code.
C10_Witness ==
    /\ codes.type = "str"
    /\ pc = "returned"
    /\ result.kind = "table"
    /\ Len(result.table.rows) = 0
    /\ requests = 1


(* ================== properties of the single fetcher =================== *)

\* The call with a single code has ended after an answer of the upstream
\* that was JSON.
SingleAnswered ==
    /\ codes.type = "str"
    /\ pc \in {"returned", "raised"}
    /\ reply.kind = "json"

\* The payload lacks a required key: 'data' is null, or it has no 'name'.
Malformed(r) == r.data = "null" \/ ~r.hasName

\* The payload has every required key and its klines are empty.
ReportsNoRows(r) == r.data = "object" /\ r.hasName /\ Len(r.klines) = 0

\* C11: a payload that reports zero rows yields a successful empty table,
\* and a payload that lacks the required keys yields a failure, never a
\* successful empty table.
C11_MalformedIsFailure ==
    SingleAnswered =>
        /\ ReportsNoRows(reply) => result = TableResult(EmptyKlineTable)
        /\ Malformed(reply) => result.kind = "error"


\* The call of get_quote_history with a single code has ended.
SingleEnded == codes.type = "str" /\ pc \in {"returned", "raised"}

\* C15: a call with a str sends one K-line request and no second one, runs
\* no task and no retry, and when that request fails the caller gets the
\* exception, not an empty table.
C15_SingleNoRetry ==
    SingleEnded =>
        /\ requests <= 1
        /\ SendsRequest(codes.value, quote_id_mode) => requests = 1
        /\ tasks = << >>
        /\ attempts = << >>
        /\ reply.kind = "error" =>
              /\ pc = "raised"
              /\ result = ErrorResult("ConnectionError")

\* The one request of a call with a str has failed and the caller has the
\* exception.
C15_Witness ==
    /\ codes.type = "str"
    /\ pc = "raised"
    /\ reply.kind = "error"
    /\ requests = 1
    /\ result.exc = "ConnectionError"


(* ============== properties of the units of work of a batch ============= *)

\* The tasks that have stored a table under key k.
Writers(k) == { u \in DOMAIN tasks : tasks[u].wrote = << k >> }

\* Each key of the dict was written by exactly one task, and no two tasks
\* have written the same key.
OneWriterPerKey ==
    /\ \A k \in DOMAIN dfs : Cardinality(Writers(k)) = 1
    /\ \A u, v \in DOMAIN tasks :
          (u # v /\ tasks[u].wrote # << >>) => tasks[u].wrote # tasks[v].wrote

\* C13 as stated: for every list the batch accepts, a list that names an
\* identifier twice included, each key of the dict is written by exactly
\* one unit of work.
C13_OneWriterAnyList ==
    codes.type = "list" => OneWriterPerKey

\* C13, amended: for every list of distinct identifiers, each key of the
\* dict is written by exactly one unit of work, so no two units write the
\* same key.
C13_OneWriterDistinctList ==
    (codes.type = "list" /\ Distinct(BatchCodes)) => OneWriterPerKey

\* A batch over two distinct codes has returned with both tables stored.
C13_Witness ==
    /\ BatchReturned
    /\ Distinct(BatchCodes)
    /\ Len(BatchCodes) = 2
    /\ \A u \in DOMAIN tasks : tasks[u].wrote = << CodeOf(u) >>
    /\ Cardinality(DOMAIN result.dict) = 2

\* The fetch of task u has succeeded: `start` is past line 126.
Succeeded(u) == tasks[u].pc \in {"write", "update", "desc", "done"}

\* The tries of task u that ended in an exception: what retry has counted
\* down.
FailuresOf(u) == tries - tasks[u].triesLeft

\* C14: a unit whose fetch fails k < tries times and then succeeds makes
\* exactly k+1 attempts and none after the success, stores the table of the
\* successful attempt under its own code, and advances the progress
\* counter by exactly one.
C14_RetryThenSuccess ==
    /\ [](\A u \in DOMAIN tasks :
             Succeeded(u) => /\ FailuresOf(u) < tries
                             /\ attempts[u] = FailuresOf(u) + 1)
    /\ [](pbar.n = Cardinality({ u \in DOMAIN tasks :
                                    tasks[u].pc \in {"desc", "done"} }))
    /\ [][\A u \in DOMAIN tasks :
             /\ Succeeded(u) => attempts'[u] = attempts[u]
             /\ (tasks[u].pc = "write" /\ tasks'[u].pc = "update") =>
                   /\ CodeOf(u) \in DOMAIN dfs'
                   /\ dfs'[CodeOf(u)] = tasks[u].df
                   /\ tasks'[u].wrote = << CodeOf(u) >>
             /\ (tasks[u].pc = "update" /\ tasks'[u].pc = "desc") =>
                   pbar'.n = pbar.n + 1]_vars

\* A batch of one code has returned after the fetch failed on every try
\* but the last, with its table stored and the counter at one.
C14_Witness ==
    /\ BatchReturned
    /\ Len(BatchCodes) = 1
    /\ tries >= 2
    /\ tasks[1].pc = "done"
    /\ attempts[1] = tries
    /\ BatchCodes[1] \in DOMAIN result.dict
    /\ pbar.n = 1

\* The tasks that have executed dfs[code] = _df.
HaveWritten == { u \in DOMAIN tasks : tasks[u].wrote # << >> }

\* C16: the progress counter is never more than the number of units that
\* have written their table into the dict, never more than the number of
\* input identifiers, and when a batch over distinct identifiers returns
\* it equals the number of keys of the returned dict.
C16_CounterBehindWrites ==
    /\ pbar.n <= Cardinality(HaveWritten)
    /\ codes.type = "list" => pbar.n <= Len(BatchCodes)
    /\ (BatchReturned /\ Distinct(BatchCodes)) =>
          pbar.n = Cardinality(DOMAIN result.dict)

\* In a batch over two distinct codes one unit is done and counted, and
\* the other has written its table and not yet updated the counter.
C16_Witness ==
    /\ codes.type = "list"
    /\ pc = "multi"
    /\ Distinct(BatchCodes)
    /\ Cardinality(HaveWritten) = 2
    /\ pbar.n = 1
    /\ \E u \in DOMAIN tasks : tasks[u].pc = "update"

\* C19: under fair scheduling, with every fetch attempt ending, a call of
\* get_quote_history_multi returns, also when every attempt of every code
\* fails.
C19_Termination ==
    (codes.type = "list") ~> BatchReturned

\* A batch has returned after every code failed on each of the default
\* number of tries: the dict is empty.
C19_Witness ==
    /\ BatchReturned
    /\ Len(BatchCodes) >= 1
    /\ tries = DefaultTries
    /\ \A u \in DOMAIN tasks :
          tasks[u].pc = "dead" /\ attempts[u] = DefaultTries
    /\ DOMAIN result.dict = {}


(* ======================= properties of the cache ======================= *)

\* C2: a call of get_deal_detail for a quote id that already has an entry
\* in BASE_INFO_CACHE sends no base-info request.
C2_NoLookupOnHit ==
    deal.hit => ~deal.baseRequested

\* The last call of get_deal_detail got past line 351 with a base-info
\* record in hand.
UsedRecord(d) == d.used # << >>

\* C12: after a lookup for a quote id BASE_INFO_CACHE holds an entry for it,
\* the record the call used; and two calls in a row for the same quote id
\* use equal records, whatever the upstream answers the second time.
C12_CacheConsistency ==
    /\ [](UsedRecord(deal) =>
            /\ deal.quote_id \in DOMAIN BASE_INFO_CACHE
            /\ BASE_INFO_CACHE[deal.quote_id] = deal.used[1])
    /\ [][(/\ UsedRecord(deal)
           /\ UsedRecord(deal')
           /\ deal'.quote_id = deal.quote_id) => deal'.used = deal.used]_vars

\* A second lookup for a quote id found its entry and used a record that
\* carries the code.
C12_Witness ==
    /\ calls >= 2
    /\ deal.hit
    /\ UsedRecord(deal)
    /\ deal.used[1].code.type = "str"

\* C17: a call of get_deal_detail leaves every entry BASE_INFO_CACHE holds
\* as it is, the entry of its own quote id included, whatever the upstream
\* answers; the only key it can add is its own quote id.
C17_FirstRecordWins ==
    [][/\ \A k \in DOMAIN BASE_INFO_CACHE :
             /\ k \in DOMAIN BASE_INFO_CACHE'
             /\ BASE_INFO_CACHE'[k] = BASE_INFO_CACHE[k]
       /\ DOMAIN BASE_INFO_CACHE' \subseteq
             DOMAIN BASE_INFO_CACHE \cup {deal'.quote_id}]_vars

\* Both quote ids have an entry, and the last call found its entry while
\* the upstream reported another record than the stored one, which is
\* still the stored one.
C17_Witness ==
    /\ Cardinality(DOMAIN BASE_INFO_CACHE) = 2
    /\ deal.hit
    /\ deal.fresh # << >>
    /\ deal.fresh # deal.used
    /\ BASE_INFO_CACHE[deal.quote_id] = deal.used[1]

\* The record the last call worked with has no code: the upstream had no
\* base data for the quote id.
UsedNoCode == UsedRecord(deal) /\ deal.used[1].code.type = "none"

\* C18: a call whose base-info record has no code returns a zero-row table
\* with the seven declared columns, sends no trade-detail request, and has
\* stored that record in BASE_INFO_CACHE.
C18_NoCodeGivesEmpty ==
    UsedNoCode =>
        /\ deal.kind = "table"
        /\ deal.table = EmptyDataFrame(DealColumns)
        /\ Len(deal.table.columns) = 7
        /\ Len(deal.table.rows) = 0
        /\ ~deal.detailRequested
        /\ deal.quote_id \in DOMAIN BASE_INFO_CACHE
        /\ BASE_INFO_CACHE[deal.quote_id] = deal.used[1]

\* The first call for a quote id got a record without code from the
\* upstream and returned the empty table.
C18_Witness ==
    /\ calls = 1
    /\ UsedNoCode
    /\ ~deal.hit
    /\ deal.kind = "table"
    /\ detailRequests = 0
    /\ DOMAIN BASE_INFO_CACHE = {deal.quote_id}

====
